---- MODULE Spec2Model ----
(***************************************************************************)
(* A model of the containers of the ds-algorithms repository.               *)
(*                                                                         *)
(* DS::Array<T>, the dynamic array: the object's fields _capacity, _size   *)
(* and _array are the state; every public member function is one action.   *)
(* C++ index i of the storage is position i + 1 of the sequence _array,    *)
(* and the null pointer is the empty sequence.  (Spec, SpecPushes)         *)
(*                                                                         *)
(* Several Array objects and the allocations their _array fields point     *)
(* to, for what copying an Array does to ownership.  (SpecCopies)          *)
(*                                                                         *)
(* DS::SinglyLinkedList<T> and DS::DLinkedList<T>: the fields head, tail   *)
(* and size and the nodes on the heap, addresses being 1, 2, ... and the   *)
(* null pointer 0.  (SpecSinglyLinkedList, SpecDLinkedList)                *)
(*                                                                         *)
(* DS::Stack<T>, the stack kept in a DLinkedList.  (SpecListStack)         *)
(*                                                                         *)
(* ds::Stack<T> and ds::Queue<T>, the stack and the circular queue kept    *)
(* in a buffer of fixed capacity.  (SpecStack, SpecQueue)                  *)
(***************************************************************************)
EXTENDS Integers, Sequences, FiniteSets, TLC

\* ------------------------------------------------------------------ bounds
\* Largest capacity the model lets the array reach.
MaxCap == 8
\* Largest number of elements the model lets the array hold.
MaxSize == 4
\* Element values are 1..MaxVal.
MaxVal == 2
\* Largest length argument handed to remove_at.
MaxLen == 2
\* Number of calls followed after the first push of a push/pop alternation.
MaxAlternations == 4
\* Largest number of pushes made on a fresh array in SpecPushes.
MaxPushes == 6
\* Largest capacity a ds::Stack is constructed with.
MaxStackCap == 3
\* Largest capacity a ds::Queue is constructed with.
MaxQueueCap == 3

\* ------------------------------------------------------------ value domain
\* The values of T stored by callers.
Val == 1..MaxVal

\* The content of a slot that new T[n] allocated and nobody wrote yet: an
\* indeterminate value, resolved when it is observed.
Uninit == 0

VARIABLES
    _capacity,  \* int _capacity
    _size,      \* int _size
    _array,     \* T *_array: the allocated slots, <<>> for nullptr
    op,         \* the member function called last, "idle" between calls
    args,       \* its arguments
    res,        \* how the call ended: "ok", the error it threw, or "segv"
    ret,        \* the value it returned (0 for void)
    pre,        \* the fields as they were when the call started
    pushed,     \* the values put in and not yet taken out again, in order
    instances,  \* SpecCopies: the fields of the Array objects a and b
    allocations,\* SpecCopies: what became of each new T[n], in order of allocation
    slist,      \* SpecSinglyLinkedList: head, tail, size and the heap of nodes
    dlist,      \* SpecDLinkedList, SpecListStack: head, tail, size and the heap of nodes
    stack,      \* SpecStack: the fields stack, capacity, top_index of a ds::Stack
    queue       \* SpecQueue: the fields queue, capacity, front, rear, size of a ds::Queue

vars == <<_capacity, _size, _array, op, args, res, ret, pre, pushed,
          instances, allocations, slist, dlist, stack, queue>>

\* The variables of the other specifications, which a specification that
\* does not use them leaves at their first values.
arrayVars == <<_capacity, _size, _array, pushed>>
copyVars == <<instances, allocations>>
listVars == <<slist, dlist>>
adapterVars == <<stack, queue>>

\* The object the member functions work on.
This == [_capacity |-> _capacity, _size |-> _size, _array |-> _array]

\* std::min
Min(x, y) == IF x < y THEN x ELSE y

\* ------------------------------------------------------------- call ends
\* A call returns normally, leaving the object as a.
Ok(a) == [st |-> a, res |-> "ok", ret |-> 0]

\* A call returns the value r.
Return(a, r) == [st |-> a, res |-> "ok", ret |-> r]

\* A throw statement, reached with the object as a.  std::out_of_range is
\* "IndexOutOfRange"; std::runtime_error is "InvalidArgument" ("Invalid
\* capacity", "Invalid length"), "Underflow" ("Array is empty") or
\* "CapacityExceeded" ("Array is full").
Throw(a, kind) == [st |-> a, res |-> kind, ret |-> 0]

\* A read or write outside the allocated storage (through nullptr after
\* clear()): undefined behaviour, which every build turns into a fault of
\* the process.
Fault(a) == [st |-> a, res |-> "segv", ret |-> 0]

\* Slot i of the storage exists.
InStorage(a, i) == 0 <= i /\ i < Len(a._array)

\* new T[n]
NewArray(n) == [i \in 1..n |-> Uninit]

\* --------------------------------------------------------- private helpers
index_in_bounds(a, index) == index >= 0 /\ index < a._size

setter_index_in_bounds(a, index) == index >= 0 /\ index <= a._size

\* is_valid_capacity with zero let through.
is_valid_capacity_from_zero(capacity) == capacity >= 0

is_valid_capacity(capacity) == capacity >= 1

is_valid_size(size) == size >= 0

full(a) == a._size = a._capacity

empty(a) == a._size = 0

\* delete[] _array; _array = nullptr; set_size(0).  _capacity is not touched.
clear(a) == [a EXCEPT !._array = <<>>, !._size = 0]

\* resize with _size kept as it was instead of cut to copy_limit.
resize_keeps_size(a, new_capacity) ==
    IF ~is_valid_capacity(new_capacity) THEN Throw(a, "InvalidArgument")
    ELSE IF new_capacity = a._capacity THEN Ok(a)
    ELSE LET copy_limit == Min(new_capacity, a._size)
             new_array == [i \in 1..new_capacity |->
                              IF i <= copy_limit /\ i <= Len(a._array)
                              THEN a._array[i] ELSE Uninit]
         IN  Ok([_capacity |-> new_capacity, _size |-> a._size,
                 _array |-> new_array])

resize(a, new_capacity) ==
    IF ~is_valid_capacity(new_capacity) THEN Throw(a, "InvalidArgument")
    ELSE IF new_capacity = a._capacity THEN Ok(a)
    ELSE LET copy_limit == Min(new_capacity, a._size)
             new_array == [i \in 1..new_capacity |->
                              IF i <= copy_limit THEN a._array[i] ELSE Uninit]
             cleared == clear(a)
         IN  IF copy_limit > Len(a._array) THEN Fault(a)
             ELSE Ok([cleared EXCEPT !._array = new_array,
                                     !._capacity = new_capacity,
                                     !._size = copy_limit])

\* grow with one more slot instead of twice the capacity.
grow_by_one(a) ==
    IF full(a)
    THEN resize(a, a._capacity + 1)
    ELSE Ok(a)

grow(a) ==
    IF full(a)
    THEN resize(a, IF a._capacity = 0 THEN 1 ELSE a._capacity * 2)
    ELSE Ok(a)

\* shrink with the threshold at half the capacity instead of a quarter.
shrink_at_half(a) ==
    IF a._size < a._capacity \div 2
    THEN resize(a, a._capacity \div 2)
    ELSE Ok(a)

\* shrink with the threshold met by a size equal to a quarter of the capacity.
shrink_at_quarter_or_less(a) ==
    IF a._size <= a._capacity \div 4
    THEN resize(a, a._capacity \div 2)
    ELSE Ok(a)

shrink(a) ==
    IF a._size < a._capacity \div 4
    THEN resize(a, a._capacity \div 2)
    ELSE Ok(a)

\* ---------------------------------------------------------- public members
push(a, value) ==
    LET g == IF full(a) THEN grow(a) ELSE Ok(a)
    IN  IF g.res # "ok" THEN g
        ELSE IF ~InStorage(g.st, g.st._size) THEN Fault(g.st)
        ELSE Ok([g.st EXCEPT !._array[g.st._size + 1] = value,
                             !._size = @ + 1])

\* pop without the shrink behind the decrement.
pop_without_shrink(a) ==
    IF empty(a) THEN Throw(a, "Underflow")
    ELSE Ok([a EXCEPT !._size = @ - 1])

\* pop without the test for an empty array.
pop_unguarded(a) == shrink([a EXCEPT !._size = @ - 1])

\* The statement "--size;" names the member function size(); it is read as
\* the decrement of the field _size that pop() is there to do.
pop(a) ==
    IF empty(a) THEN Throw(a, "Underflow")
    ELSE shrink([a EXCEPT !._size = @ - 1])

\* at with the index tested against the capacity instead of the size.
at_within_capacity(a, index) ==
    IF ~(index >= 0 /\ index < a._capacity) THEN Throw(a, "IndexOutOfRange")
    ELSE IF ~InStorage(a, index) THEN Fault(a)
    ELSE Return(a, a._array[index + 1])

at(a, index) ==
    IF ~index_in_bounds(a, index) THEN Throw(a, "IndexOutOfRange")
    ELSE IF ~InStorage(a, index) THEN Fault(a)
    ELSE Return(a, a._array[index + 1])

\* operator[] with ++_size done before the full() test.
operator_index_counts_first(a, index) ==
    IF ~setter_index_in_bounds(a, index) THEN Throw(a, "IndexOutOfRange")
    ELSE LET a1 == IF index = a._size THEN [a EXCEPT !._size = @ + 1] ELSE a
         IN  IF full(a) THEN Throw(a1, "CapacityExceeded") ELSE Ok(a1)

\* operator[] with the full() test made before the index test.
operator_index_full_first(a, index) ==
    IF full(a) THEN Throw(a, "CapacityExceeded")
    ELSE IF ~setter_index_in_bounds(a, index) THEN Throw(a, "IndexOutOfRange")
    ELSE Ok(IF index = a._size THEN [a EXCEPT !._size = @ + 1] ELSE a)

\* T &operator[](const int index), up to the reference it returns.
operator_index(a, index) ==
    IF ~setter_index_in_bounds(a, index) THEN Throw(a, "IndexOutOfRange")
    ELSE IF full(a) THEN Throw(a, "CapacityExceeded")
    ELSE Ok(IF index = a._size THEN [a EXCEPT !._size = @ + 1] ELSE a)

\* The caller assigns value through the reference operator[] returned.
write_through(out, index, value) ==
    IF out.res # "ok" THEN out
    ELSE IF ~InStorage(out.st, index) THEN Fault(out.st)
    ELSE Ok([out.st EXCEPT !._array[index + 1] = value])

\* The caller reads through the reference operator[] returned.
read_through(out, index) ==
    IF out.res # "ok" THEN out
    ELSE IF ~InStorage(out.st, index) THEN Fault(out.st)
    ELSE Return(out.st, out.st._array[index + 1])

\* T operator[](const int index) const
operator_index_const(a, index) ==
    IF ~index_in_bounds(a, index) THEN Throw(a, "IndexOutOfRange")
    ELSE IF ~InStorage(a, index) THEN Fault(a)
    ELSE Return(a, a._array[index + 1])

\* std::swap(_array[i], _array[j])
swap(arr, i, j) == [arr EXCEPT ![i + 1] = arr[j + 1], ![j + 1] = arr[i + 1]]

RECURSIVE reverse_loop(_, _, _)
reverse_loop(a, i, mid) ==
    IF i > mid THEN Ok(a)
    ELSE IF ~InStorage(a, i) \/ ~InStorage(a, a._size - 1 - i) THEN Fault(a)
    ELSE reverse_loop([a EXCEPT !._array = swap(@, i, a._size - 1 - i)],
                      i + 1, mid)

\* reverse with the loop run up to _size / 2.
reverse_to_half_size(a) ==
    IF empty(a) THEN Ok(a)
    ELSE reverse_loop(a, 0, a._size \div 2)

reverse(a) ==
    IF empty(a) THEN Ok(a)
    ELSE reverse_loop(a, 0, (a._size - 1) \div 2)

\* The two copy loops of remove_at with the tail moved down by one slot
\* whatever the length.
remove_at_copy_shift_one(a, index, length) ==
    [k \in 1..a._capacity |->
        IF k - 1 < index /\ k <= Len(a._array) THEN a._array[k]
        ELSE IF k - 1 >= index + length - 1 /\ k < a._size /\ k + 1 <= Len(a._array)
             THEN a._array[k + 1]
        ELSE Uninit]

\* The two copy loops of remove_at: copy_arr = new T[_capacity], the slots
\* before index kept in place, the slots after the deleted run moved down
\* by length.
remove_at_copy(a, index, length) ==
    [k \in 1..a._capacity |->
        IF k - 1 < index THEN a._array[k]
        ELSE IF k - 1 + length < a._size THEN a._array[k + length]
        ELSE Uninit]

\* remove_at with the length tested before the index.
remove_at_length_first(a, index, length) ==
    IF length < 0 THEN Throw(a, "InvalidArgument")
    ELSE IF length = 0 THEN Ok(a)
    ELSE IF ~index_in_bounds(a, index) THEN Throw(a, "IndexOutOfRange")
    ELSE IF index + (length - 1) >= a._size THEN Throw(a, "IndexOutOfRange")
    ELSE shrink([clear(a) EXCEPT
                     !._array = remove_at_copy(a, index, length),
                     !._size = a._size - length])

remove_at(a, index, length) ==
    IF ~index_in_bounds(a, index) THEN Throw(a, "IndexOutOfRange")
    ELSE IF length < 0 THEN Throw(a, "InvalidArgument")
    ELSE IF length = 0 THEN Ok(a)
    ELSE LET end_delete_idx == index + (length - 1)
             new_size == a._size - length
             reads == (0..(index - 1)) \cup ((end_delete_idx + 1)..(a._size - 1))
         IN  IF end_delete_idx >= a._size THEN Throw(a, "IndexOutOfRange")
             ELSE IF \E i \in reads : ~InStorage(a, i) THEN Fault(a)
             ELSE shrink([clear(a) EXCEPT
                              !._array = remove_at_copy(a, index, length),
                              !._size = new_size])

\* The copy loops of insert_at with the tail copied without the shift.
insert_at_copy_no_shift(a, index, value, new_capacity) ==
    [k \in 1..new_capacity |->
        IF k - 1 < index /\ k <= Len(a._array) THEN a._array[k]
        ELSE IF k - 1 = index THEN value
        ELSE IF k - 1 <= a._size /\ k <= Len(a._array) THEN a._array[k]
        ELSE Uninit]

\* The copy loops of insert_at: copy_arr = new T[new_capacity], the slots
\* before index kept in place, value at index, the rest moved up by one.
insert_at_copy(a, index, value, new_capacity) ==
    [k \in 1..new_capacity |->
        IF k - 1 < index THEN a._array[k]
        ELSE IF k - 1 = index THEN value
        ELSE IF k - 1 <= a._size THEN a._array[k - 1]
        ELSE Uninit]

insert_at(a, index, value) ==
    IF ~index_in_bounds(a, index) THEN Throw(a, "IndexOutOfRange")
    ELSE LET new_capacity == IF full(a) THEN a._capacity + 1 ELSE a._capacity
             bumped == [a EXCEPT !._capacity = new_capacity]
             new_size == a._size + 1
         IN  IF \E i \in 0..(a._size - 1) : ~InStorage(a, i) THEN Fault(bumped)
             ELSE grow([clear(bumped) EXCEPT
                            !._array = insert_at_copy(a, index, value, new_capacity),
                            !._capacity = new_capacity,
                            !._size = new_size])

\* pop_back done by pop().
pop_back_by_pop(a) == pop(a)

pop_back(a) == remove_at(a, a._size - 1, 1)

pop_front(a) == remove_at(a, 0, 1)

\* The results the loop of find can give from iteration i on.  A slot that
\* was never written compares equal or unequal to value.
RECURSIVE find_from(_, _, _)
find_from(a, value, i) ==
    IF i >= a._size THEN {Return(a, 0 - 1)}
    ELSE IF ~InStorage(a, i) THEN {Fault(a)}
    ELSE IF a._array[i + 1] = value THEN {Return(a, i)}
    ELSE IF a._array[i + 1] = Uninit
         THEN {Return(a, i)} \cup find_from(a, value, i + 1)
    ELSE find_from(a, value, i + 1)

\* find with the loop run over the whole capacity.
find_over_capacity(a, value) ==
    { [f EXCEPT !.st = a] :
          f \in find_from([a EXCEPT !._size = a._capacity], value, 0) }

find(a, value) == find_from(a, value, 0)

\* remove with the index find returned handed on untested.
remove_untested_index(a, value) ==
    { IF f.res # "ok" THEN f ELSE remove_at(a, f.ret, 1) :
          f \in find(a, value) }

remove(a, value) ==
    { IF f.res # "ok" THEN f
      ELSE IF f.ret # 0 - 1 THEN remove_at(a, f.ret, 1)
      ELSE Ok(a) : f \in find(a, value) }

\* ------------------------------------------------------ no object in scope
\* No Array object is declared.
NoArray == _capacity = 0 /\ _size = 0 /\ _array = <<>> /\ pushed = <<>>

\* An Array variable that is not declared yet, or whose scope has ended.
NoInstance == [alive |-> FALSE, _capacity |-> 0, _size |-> 0, _array |-> 0]

\* The names of the Array variables a caller declares.
Names == {"a", "b"}

\* Neither Array variable is declared and nothing is allocated.
NoInstances == instances = [n \in Names |-> NoInstance] /\ allocations = <<>>

\* Nodes a list can have allocated at one time.
MaxNodes == 4

\* The addresses new Node<T>(value) and new DNode<T>(value) return.
Addresses == 1..MaxNodes

\* The place of a Node<T> that is not allocated.
FreeNode == [live |-> FALSE, value |-> 0, next |-> 0]

\* The place of a DNode<T> that is not allocated.
FreeDNode == [live |-> FALSE, value |-> 0, prev |-> 0, next |-> 0]

\* SinglyLinkedList() : head(nullptr), tail(nullptr), size(0)
EmptySinglyLinkedList ==
    [head |-> 0, tail |-> 0, size |-> 0, nodes |-> [p \in Addresses |-> FreeNode]]

\* DLinkedList() : head(nullptr), tail(nullptr), size(0)
EmptyDLinkedList ==
    [head |-> 0, tail |-> 0, size |-> 0, nodes |-> [p \in Addresses |-> FreeDNode]]

\* No list has been used.
NoLists == slist = EmptySinglyLinkedList /\ dlist = EmptyDLinkedList

\* A ds::Stack that is not declared.
NoStack == [stack |-> <<>>, capacity |-> 0, top_index |-> 0]

\* A ds::Queue that is not declared.
NoQueue == [queue |-> <<>>, capacity |-> 0, front |-> 0, rear |-> 0, size |-> 0]

\* No ds::Stack and no ds::Queue is declared.
NoAdapters == stack = NoStack /\ queue = NoQueue

\* ------------------------------------------------------------ the machine
\* The indices callers try: every valid one and one beyond on each side.
Indices == (0 - 1)..(_size + 1)

\* explicit Array(const int capacity = 1).  set_capacity throws before any
\* field is set and before the storage is allocated: no object comes to
\* exist then, which the fields show as zero and nullptr.
Array(capacity) ==
    IF ~is_valid_capacity(capacity)
    THEN Throw([_capacity |-> 0, _size |-> 0, _array |-> <<>>], "InvalidArgument")
    ELSE Ok([_capacity |-> capacity, _size |-> 0, _array |-> NewArray(capacity)])

\* The object exists: its constructor returned.
Constructed == op # "Array" \/ res = "ok"

\* Array a; or Array a(capacity);
Init ==
    \E arguments \in {<<>>} \cup {<<capacity>> : capacity \in (0 - 1)..MaxCap} :
        LET out == Array(IF arguments = <<>> THEN 1 ELSE arguments[1])
        IN  /\ _capacity = out.st._capacity
            /\ _size = out.st._size
            /\ _array = out.st._array
            /\ op = "Array"
            /\ args = arguments
            /\ res = out.res
            /\ ret = 0
            /\ pre = out.st
            /\ pushed = <<>>
            /\ NoInstances
            /\ NoAdapters
            /\ NoLists

\* One call of a member function on the live object, made when the caller
\* is done with the call before, ending as out.  No call follows a fault;
\* growth stops at MaxCap slots and MaxSize elements.
Call(name, arguments, out) ==
    /\ op = "idle"
    /\ out.st._capacity <= MaxCap
    /\ out.st._size <= MaxSize
    /\ pre' = This
    /\ op' = name
    /\ args' = arguments
    /\ res' = out.res
    /\ \E r \in (IF out.res = "ok" /\ out.ret = Uninit /\ name \in {"at", "operator[]", "operator[] const"}
                 THEN Val ELSE {out.ret}) : ret' = r
    /\ _capacity' = out.st._capacity
    /\ _size' = out.st._size
    /\ _array' = out.st._array
    /\ pushed' = pushed
    /\ UNCHANGED <<copyVars, listVars, adapterVars>>

\* The caller has seen how the call ended and goes on: the record of the
\* finished call is dropped.  A faulted process does not go on, and there
\* is nothing to call when the constructor threw.
Continue ==
    /\ op # "idle"
    /\ res # "segv"
    /\ Constructed
    /\ op' = "idle"
    /\ args' = <<>>
    /\ res' = "ok"
    /\ ret' = 0
    /\ pre' = This
    /\ UNCHANGED <<_capacity, _size, _array, pushed>>
    /\ UNCHANGED <<copyVars, listVars, adapterVars>>

Push == \E value \in Val : Call("push", <<value>>, push(This, value))

Pop == Call("pop", <<>>, pop(This))

At == \E index \in Indices : Call("at", <<index>>, at(This, index))

\* a[index] = value
OperatorIndexWrite ==
    \E index \in Indices, value \in Val :
        Call("operator[]=", <<index, value>>,
             write_through(operator_index(This, index), index, value))

\* ... = a[index] on an Array that is not const
OperatorIndexRead ==
    \E index \in Indices :
        Call("operator[]", <<index>>,
             read_through(operator_index(This, index), index))

\* ... = a[index] on a const Array
OperatorIndexConst ==
    \E index \in Indices :
        Call("operator[] const", <<index>>, operator_index_const(This, index))

Resize ==
    \E new_capacity \in 0..MaxCap :
        Call("resize", <<new_capacity>>, resize(This, new_capacity))

Reverse == Call("reverse", <<>>, reverse(This))

InsertAt ==
    \E index \in Indices, value \in Val :
        Call("insert_at", <<index, value>>, insert_at(This, index, value))

RemoveAt ==
    \E index \in Indices, length \in (0 - 1)..MaxLen :
        Call("remove_at", <<index, length>>, remove_at(This, index, length))

PopBack == Call("pop_back", <<>>, pop_back(This))

PopFront == Call("pop_front", <<>>, pop_front(This))

Find == \E value \in Val : \E out \in find(This, value) : Call("find", <<value>>, out)

Remove == \E value \in Val : \E out \in remove(This, value) : Call("remove", <<value>>, out)

Clear == Call("clear", <<>>, Ok(clear(This)))

Next ==
    \/ Push
    \/ Pop
    \/ At
    \/ OperatorIndexWrite
    \/ OperatorIndexRead
    \/ OperatorIndexConst
    \/ Resize
    \/ Reverse
    \/ InsertAt
    \/ RemoveAt
    \/ PopBack
    \/ PopFront
    \/ Find
    \/ Remove
    \/ Clear
    \/ Continue

Spec == Init /\ [][Next]_vars

\* ------------------------------------------- a fresh array that is only pushed
\* Array(1): the array of the spec's push example.
InitPushes ==
    /\ _capacity = 1
    /\ _size = 0
    /\ _array = NewArray(1)
    /\ op = "Array"
    /\ args = <<1>>
    /\ res = "ok"
    /\ ret = 0
    /\ pre = [_capacity |-> 1, _size |-> 0, _array |-> NewArray(1)]
    /\ pushed = <<>>
    /\ NoInstances
    /\ NoAdapters
    /\ NoLists

\* push(value), the only call made on this array; the value is noted.
LoggedPush ==
    /\ op = "idle"
    /\ Len(pushed) < MaxPushes
    /\ \E value \in Val :
           LET out == push(This, value)
           IN  /\ pre' = This
               /\ op' = "push"
               /\ args' = <<value>>
               /\ res' = out.res
               /\ ret' = out.ret
               /\ _capacity' = out.st._capacity
               /\ _size' = out.st._size
               /\ _array' = out.st._array
               /\ pushed' = Append(pushed, value)
               /\ UNCHANGED <<copyVars, listVars, adapterVars>>

NextPushes ==
    \/ LoggedPush
    \/ Continue

SpecPushes == InitPushes /\ [][NextPushes]_vars

\* ------------------------------------------- several arrays and the heap
\* Allocations made by new T[n] in one run.
MaxAllocs == 4
\* Largest capacity an array reaches where several arrays are followed.
MaxSharedCap == 2

\* The Array objects and the heap they point into.  An allocation is known
\* by its place in the order of allocation; _array holds that place, 0 for
\* nullptr.  The contents of the slots play no part here and are left out.
World == [instances |-> instances, allocations |-> allocations]

\* How a call on several arrays ends: the world it leaves and "ok", the
\* error thrown, or "segv" where the process stopped.
Ends(w, kind) == [st |-> w, res |-> kind]

\* What undefined behaviour leads to: the process stops, or it goes on
\* with the world as w.
Undefined(w) == {Ends(w, "segv"), Ends(w, "ok")}

\* new T[n]: the next allocation.
new_array(w) == Len(w.allocations) + 1

\* The storage p points to is allocated and not released.
Owned(w, p) == p # 0 /\ w.allocations[p] = "owned"

\* delete[] p: nothing for nullptr; the allocation is released, a second
\* time if it was released before.
delete_array(allocs, p) ==
    IF p = 0 THEN allocs
    ELSE [allocs EXCEPT ![p] = IF @ = "owned" THEN "released" ELSE "released twice"]

\* explicit Array(const int capacity = 1) for the variable n.
construct_in(w, n, capacity) ==
    IF ~is_valid_capacity(capacity) THEN {Ends(w, "InvalidArgument")}
    ELSE {Ends([instances |-> [w.instances EXCEPT ![n] =
                                  [alive |-> TRUE, _capacity |-> capacity,
                                   _size |-> 0, _array |-> new_array(w)]],
                allocations |-> Append(w.allocations, "owned")], "ok")}

\* The copy constructor and the copy assignment the compiler supplies, the
\* class declaring neither: _capacity, _size and _array are copied member
\* by member.
copy_in(w, n, from) ==
    {Ends([w EXCEPT !.instances[n] = w.instances[from]], "ok")}

\* clear() of the variable n.
clear_in(w, n) ==
    LET p == w.instances[n]._array
        after == [instances |-> [w.instances EXCEPT ![n]._array = 0, ![n]._size = 0],
                  allocations |-> delete_array(w.allocations, p)]
    IN  IF p = 0 \/ Owned(w, p) THEN {Ends(after, "ok")} ELSE Undefined(after)

\* ~Array() of the variable n.
destroy_in(w, n) ==
    { Ends([e.st EXCEPT !.instances[n] = NoInstance], e.res) : e \in clear_in(w, n) }

\* resize(new_capacity) of the variable n.
resize_in(w, n, new_capacity) ==
    LET x == w.instances[n]
        copy_limit == Min(new_capacity, x._size)
        allocated == [w EXCEPT !.allocations = Append(@, "owned")]
    IN  IF ~is_valid_capacity(new_capacity) THEN {Ends(w, "InvalidArgument")}
        ELSE IF new_capacity = x._capacity THEN {Ends(w, "ok")}
        ELSE IF copy_limit > 0 /\ x._array = 0 THEN {Ends(allocated, "segv")}
        ELSE { Ends([e.st EXCEPT !.instances[n]._array = new_array(w),
                                 !.instances[n]._capacity = new_capacity,
                                 !.instances[n]._size = copy_limit],
                    IF copy_limit > 0 /\ ~Owned(w, x._array) /\ e.res = "ok"
                    THEN kind ELSE e.res) :
                   e \in clear_in(allocated, n), kind \in {"ok", "segv"} }

\* push(value) of the variable n.
push_in(w, n) ==
    LET x == w.instances[n]
        grown == IF full(x)
                 THEN resize_in(w, n, IF x._capacity = 0 THEN 1 ELSE x._capacity * 2)
                 ELSE {Ends(w, "ok")}
    IN  UNION { IF g.res # "ok" THEN {g}
                ELSE LET p == g.st.instances[n]._array
                         written == [g.st EXCEPT !.instances[n]._size = @ + 1]
                     IN  IF p = 0 THEN {Ends(g.st, "segv")}
                         ELSE IF Owned(g.st, p) THEN {Ends(written, "ok")}
                         ELSE Undefined(written)
              : g \in grown }

InitCopies ==
    /\ NoInstances
    /\ NoAdapters
    /\ NoArray
    /\ NoLists
    /\ op = "idle"
    /\ args = <<>>
    /\ res = "ok"
    /\ ret = 0
    /\ pre = 0

\* One statement of the caller on its Array variables, ending as e.  No
\* statement follows a stop of the process.
Statement(name, arguments, e) ==
    /\ res # "segv"
    /\ Len(e.st.allocations) <= MaxAllocs
    /\ \A n \in Names : e.st.instances[n]._capacity <= MaxSharedCap
    /\ instances' = e.st.instances
    /\ allocations' = e.st.allocations
    /\ op' = name
    /\ args' = arguments
    /\ res' = e.res
    /\ UNCHANGED <<ret, pre, arrayVars, listVars, adapterVars>>

\* Array n(capacity);
Construct ==
    \E n \in Names, capacity \in 0..MaxSharedCap :
        /\ ~instances[n].alive
        /\ \E e \in construct_in(World, n, capacity) :
               Statement("Array", <<n, capacity>>, e)

\* Array n(from);
CopyConstruct ==
    \E n \in Names, from \in Names :
        /\ ~instances[n].alive
        /\ instances[from].alive
        /\ \E e \in copy_in(World, n, from) :
               Statement("Array(const Array &)", <<n, from>>, e)

\* n = from;
CopyAssign ==
    \E n \in Names, from \in Names :
        /\ instances[n].alive
        /\ instances[from].alive
        /\ \E e \in copy_in(World, n, from) :
               Statement("operator=", <<n, from>>, e)

\* n.clear();
ClearOne ==
    \E n \in Names :
        /\ instances[n].alive
        /\ \E e \in clear_in(World, n) : Statement("clear", <<n>>, e)

\* The scope of n ends.
Destroy ==
    \E n \in Names :
        /\ instances[n].alive
        /\ \E e \in destroy_in(World, n) : Statement("~Array", <<n>>, e)

\* n.resize(new_capacity);
ResizeOne ==
    \E n \in Names, new_capacity \in 0..MaxSharedCap :
        /\ instances[n].alive
        /\ \E e \in resize_in(World, n, new_capacity) :
               Statement("resize", <<n, new_capacity>>, e)

\* n.push(value);
PushOne ==
    \E n \in Names :
        /\ instances[n].alive
        /\ \E e \in push_in(World, n) : Statement("push", <<n>>, e)

NextCopies ==
    \/ Construct
    \/ CopyConstruct
    \/ CopyAssign
    \/ ClearOne
    \/ Destroy
    \/ ResizeOne
    \/ PushOne

SpecCopies == InitCopies /\ [][NextCopies]_vars

\* ------------------------------------------------------ SinglyLinkedList<T>
\* The addresses at which new can place a node.
FreeAddresses(l) == {p \in Addresses : ~l.nodes[p].live}

\* new Node<T>(value): value(value), next(nullptr)
Node(value) == [live |-> TRUE, value |-> value, next |-> 0]

SinglyLinkedList_is_empty(l) == l.head = 0

SinglyLinkedList_get_front(l) ==
    IF SinglyLinkedList_is_empty(l) THEN Throw(l, "runtime_error")
    ELSE Return(l, l.nodes[l.head].value)

\* The ends of get_back.  tail->value read from a node that was deleted is
\* undefined: the process stops or some value comes back.
SinglyLinkedList_get_back(l) ==
    IF SinglyLinkedList_is_empty(l) THEN {Throw(l, "runtime_error")}
    ELSE IF l.tail = 0 THEN {Fault(l)}
    ELSE IF ~l.nodes[l.tail].live THEN {Fault(l)} \cup {Return(l, v) : v \in Val}
    ELSE {Return(l, l.nodes[l.tail].value)}

SinglyLinkedList_get_size(l) == l.size

\* The ends of insert_front, one for each address new can return.
SinglyLinkedList_insert_front(l, value) ==
    { LET linked == [l EXCEPT !.nodes[p] = [Node(value) EXCEPT !.next = l.head],
                              !.head = p,
                              !.size = @ + 1]
      IN  Ok(IF SinglyLinkedList_get_size(linked) = 1
             THEN [linked EXCEPT !.tail = linked.head]
             ELSE linked)
      : p \in FreeAddresses(l) }

\* The ends of insert_back.  tail->next = new_node written to a node that
\* was deleted is undefined: the process stops or the write is lost.
SinglyLinkedList_insert_back(l, value) ==
    UNION { LET made == [l EXCEPT !.nodes[p] = Node(value)]
            IN  IF SinglyLinkedList_is_empty(l)
                THEN {Ok([made EXCEPT !.head = p, !.tail = p, !.size = @ + 1])}
                ELSE IF l.tail = 0 THEN {Fault(made)}
                ELSE IF ~made.nodes[l.tail].live
                     THEN {Fault(made), Ok([made EXCEPT !.tail = p, !.size = @ + 1])}
                ELSE {Ok([made EXCEPT !.nodes[l.tail].next = p,
                                      !.tail = p,
                                      !.size = @ + 1])}
            : p \in FreeAddresses(l) }

\* The ends of insert_after for a target that is a node of the list or
\* nullptr.  tail is not touched.
SinglyLinkedList_insert_after(l, target, value) ==
    IF target = 0 THEN {Throw(l, "runtime_error")}
    ELSE { LET after_target == l.nodes[target].next
           IN  Ok([l EXCEPT !.nodes[p] = [Node(value) EXCEPT !.next = after_target],
                            !.nodes[target].next = p,
                            !.size = @ + 1])
           : p \in FreeAddresses(l) }

SinglyLinkedList_remove_front(l) ==
    IF SinglyLinkedList_is_empty(l) THEN Throw(l, "runtime_error")
    ELSE LET old_head == l.head
             unlinked == [l EXCEPT !.head = l.nodes[old_head].next,
                                   !.nodes[old_head] = FreeNode,
                                   !.size = @ - 1]
         IN  Ok(IF SinglyLinkedList_is_empty(unlinked)
                THEN [unlinked EXCEPT !.tail = 0]
                ELSE unlinked)

\* The while loop of remove.
RECURSIVE SinglyLinkedList_remove_loop(_, _, _, _)
SinglyLinkedList_remove_loop(l, curr_node, prev_node, value) ==
    IF curr_node = 0 THEN Return(l, FALSE)
    ELSE IF l.nodes[curr_node].value = value
         THEN Return([l EXCEPT !.nodes[prev_node].next = l.nodes[curr_node].next,
                               !.nodes[curr_node] = FreeNode,
                               !.size = @ - 1], TRUE)
    ELSE SinglyLinkedList_remove_loop(l, l.nodes[curr_node].next, curr_node, value)

\* remove(value): neither branch touches tail.
SinglyLinkedList_remove(l, value) ==
    IF SinglyLinkedList_is_empty(l) THEN Throw(l, "runtime_error")
    ELSE IF l.nodes[l.head].value = value
         THEN Return([l EXCEPT !.head = l.nodes[l.head].next,
                               !.nodes[l.head] = FreeNode,
                               !.size = @ - 1], TRUE)
    ELSE SinglyLinkedList_remove_loop(l, l.head, l.head, value)

\* The while loop of find.
RECURSIVE SinglyLinkedList_find_loop(_, _, _)
SinglyLinkedList_find_loop(l, iter, value) ==
    IF iter = 0 THEN Return(l, 0)
    ELSE IF l.nodes[iter].value = value THEN Return(l, iter)
    ELSE SinglyLinkedList_find_loop(l, l.nodes[iter].next, value)

SinglyLinkedList_find(l, value) == SinglyLinkedList_find_loop(l, l.head, value)

RECURSIVE SinglyLinkedList_clear(_)
SinglyLinkedList_clear(l) ==
    IF SinglyLinkedList_is_empty(l) THEN Ok(l)
    ELSE SinglyLinkedList_clear(SinglyLinkedList_remove_front(l).st)

\* SinglyLinkedList<T> list;
InitSinglyLinkedList ==
    /\ slist = EmptySinglyLinkedList
    /\ dlist = EmptyDLinkedList
    /\ NoArray
    /\ NoInstances
    /\ NoAdapters
    /\ op = "SinglyLinkedList"
    /\ args = <<>>
    /\ res = "ok"
    /\ ret = 0
    /\ pre = EmptySinglyLinkedList

\* One call of a member function of the list, ending as out.  No call
\* follows a stop of the process.
SListCall(name, arguments, out) ==
    /\ res # "segv"
    /\ pre' = slist
    /\ op' = name
    /\ args' = arguments
    /\ res' = out.res
    /\ ret' = out.ret
    /\ slist' = out.st
    /\ UNCHANGED <<dlist, arrayVars, copyVars, adapterVars>>

SListInsertFront ==
    \E value \in Val : \E out \in SinglyLinkedList_insert_front(slist, value) :
        SListCall("insert_front", <<value>>, out)

SListInsertBack ==
    \E value \in Val : \E out \in SinglyLinkedList_insert_back(slist, value) :
        SListCall("insert_back", <<value>>, out)

\* list.insert_after(list.find(sought), value): the target is the node
\* find returns, nullptr when there is none.
SListInsertAfter ==
    \E sought \in Val, value \in Val :
        \E out \in SinglyLinkedList_insert_after(
                       slist, SinglyLinkedList_find(slist, sought).ret, value) :
            SListCall("insert_after", <<sought, value>>, out)

SListRemoveFront == SListCall("remove_front", <<>>, SinglyLinkedList_remove_front(slist))

SListRemove ==
    \E value \in Val : SListCall("remove", <<value>>, SinglyLinkedList_remove(slist, value))

SListFind ==
    \E value \in Val : SListCall("find", <<value>>, SinglyLinkedList_find(slist, value))

SListGetFront == SListCall("get_front", <<>>, SinglyLinkedList_get_front(slist))

SListGetBack ==
    \E out \in SinglyLinkedList_get_back(slist) : SListCall("get_back", <<>>, out)

SListClear == SListCall("clear", <<>>, SinglyLinkedList_clear(slist))

NextSinglyLinkedList ==
    \/ SListInsertFront
    \/ SListInsertBack
    \/ SListInsertAfter
    \/ SListRemoveFront
    \/ SListRemove
    \/ SListFind
    \/ SListGetFront
    \/ SListGetBack
    \/ SListClear

SpecSinglyLinkedList == InitSinglyLinkedList /\ [][NextSinglyLinkedList]_vars

\* ----------------------------------------------------------- DLinkedList<T>
\* new DNode<T>(value): value(value), prev(nullptr), next(nullptr)
DNode(value) == [live |-> TRUE, value |-> value, prev |-> 0, next |-> 0]

\* The address of the node new returns: the lowest one that is free.  No
\* pointer of the list outlives its node, so the choice shows nowhere.
new_node(l) == CHOOSE p \in FreeAddresses(l) : \A q \in FreeAddresses(l) : p <= q

DLinkedList_empty(l) == l.size = 0

DLinkedList_get_front(l) ==
    IF DLinkedList_empty(l) THEN Throw(l, "runtime_error")
    ELSE Return(l, l.nodes[l.head].value)

DLinkedList_get_back(l) ==
    IF DLinkedList_empty(l) THEN Throw(l, "runtime_error")
    ELSE Return(l, l.nodes[l.tail].value)

DLinkedList_insert_front(l, value) ==
    LET p == new_node(l)
    IN  Ok(IF DLinkedList_empty(l)
           THEN [l EXCEPT !.nodes[p] = DNode(value),
                          !.head = p, !.tail = p, !.size = @ + 1]
           ELSE [l EXCEPT !.nodes[p] = [DNode(value) EXCEPT !.next = l.head],
                          !.nodes[l.head].prev = p,
                          !.head = p,
                          !.size = @ + 1])

DLinkedList_push_back(l, value) ==
    LET p == new_node(l)
    IN  Return(IF DLinkedList_empty(l)
               THEN [l EXCEPT !.nodes[p] = DNode(value),
                              !.head = p, !.tail = p, !.size = @ + 1]
               ELSE [l EXCEPT !.nodes[p] = [DNode(value) EXCEPT !.prev = l.tail],
                              !.nodes[l.tail].next = p,
                              !.tail = p,
                              !.size = @ + 1],
               p)

\* insert_after that leaves the prev pointer of the node behind the new
\* one as it was.
DLinkedList_insert_after_one_way(l, target, value) ==
    IF target = 0 THEN Throw(l, "runtime_error")
    ELSE LET p == new_node(l)
             after_target == l.nodes[target].next
         IN  Ok(IF target = l.tail
                THEN [l EXCEPT !.nodes[p] = [DNode(value) EXCEPT !.prev = target],
                               !.nodes[target].next = p,
                               !.tail = p,
                               !.size = @ + 1]
                ELSE [l EXCEPT !.nodes[p] = [DNode(value) EXCEPT !.prev = target,
                                                                 !.next = after_target],
                               !.nodes[target].next = p,
                               !.size = @ + 1])

\* insert_after for a target that is a node of the list or nullptr.
DLinkedList_insert_after(l, target, value) ==
    IF target = 0 THEN Throw(l, "runtime_error")
    ELSE LET p == new_node(l)
             after_target == l.nodes[target].next
         IN  Ok(IF target = l.tail
                THEN [l EXCEPT !.nodes[p] = [DNode(value) EXCEPT !.prev = target],
                               !.nodes[target].next = p,
                               !.tail = p,
                               !.size = @ + 1]
                ELSE [l EXCEPT !.nodes[p] = [DNode(value) EXCEPT !.prev = target,
                                                                 !.next = after_target],
                               !.nodes[target].next = p,
                               !.nodes[after_target].prev = p,
                               !.size = @ + 1])

\* The for loop of get_node_at that walks from head.
RECURSIVE DLinkedList_get_node_at_forward(_, _, _, _, _)
DLinkedList_get_node_at_forward(l, current_node, node_index, index, mid) ==
    IF node_index > mid THEN Return(l, 0)
    ELSE IF node_index = index THEN Return(l, current_node)
    ELSE IF current_node = 0 THEN Fault(l)
    ELSE DLinkedList_get_node_at_forward(l, l.nodes[current_node].next,
                                         node_index + 1, index, mid)

\* The walk from tail with the step taken along next.
RECURSIVE DLinkedList_get_node_at_backward_along_next(_, _, _, _, _)
DLinkedList_get_node_at_backward_along_next(l, current_node, node_index, index, mid) ==
    IF node_index <= mid THEN Return(l, 0)
    ELSE IF node_index = index THEN Return(l, current_node)
    ELSE IF current_node = 0 THEN Fault(l)
    ELSE DLinkedList_get_node_at_backward_along_next(
             l, l.nodes[current_node].next, node_index - 1, index, mid)

\* The for loop of get_node_at that walks from tail.
RECURSIVE DLinkedList_get_node_at_backward(_, _, _, _, _)
DLinkedList_get_node_at_backward(l, current_node, node_index, index, mid) ==
    IF node_index <= mid THEN Return(l, 0)
    ELSE IF node_index = index THEN Return(l, current_node)
    ELSE IF current_node = 0 THEN Fault(l)
    ELSE DLinkedList_get_node_at_backward(l, l.nodes[current_node].prev,
                                          node_index - 1, index, mid)

\* get_node_at(index), index being a std::size_t.
DLinkedList_get_node_at(l, index) ==
    IF DLinkedList_empty(l) THEN Throw(l, "out_of_range")
    ELSE IF index < 0 \/ index >= l.size THEN Throw(l, "out_of_range")
    ELSE LET mid == (l.size - 1) \div 2
         IN  IF index <= mid
             THEN DLinkedList_get_node_at_forward(l, l.head, 0, index, mid)
             ELSE DLinkedList_get_node_at_backward(l, l.tail, l.size - 1, index, mid)

\* insert_after_at: what get_node_at throws is not caught.
DLinkedList_insert_after_at(l, index, value) ==
    LET found_node == DLinkedList_get_node_at(l, index)
    IN  IF found_node.res # "ok" THEN found_node
        ELSE IF found_node.ret = 0 THEN Ok(l)
        ELSE DLinkedList_insert_after(l, found_node.ret, value)

DLinkedList_pop_front(l) ==
    IF DLinkedList_empty(l) THEN Throw(l, "runtime_error")
    ELSE LET old_head == l.head
             value == l.nodes[old_head].value
         IN  Return(IF l.size = 1
                    THEN [l EXCEPT !.head = 0, !.tail = 0,
                                   !.nodes[old_head] = FreeDNode,
                                   !.size = @ - 1]
                    ELSE [l EXCEPT !.head = l.nodes[old_head].next,
                                   !.nodes[l.nodes[old_head].next].prev = 0,
                                   !.nodes[old_head] = FreeDNode,
                                   !.size = @ - 1],
                    value)

\* remove_last; old_tail->get_value() is read as old_tail->value.
DLinkedList_remove_last(l) ==
    IF DLinkedList_empty(l) THEN Throw(l, "runtime_error")
    ELSE LET old_tail == l.tail
             value == l.nodes[old_tail].value
         IN  Return(IF l.size = 1
                    THEN [l EXCEPT !.head = 0, !.tail = 0,
                                   !.nodes[old_tail] = FreeDNode,
                                   !.size = @ - 1]
                    ELSE [l EXCEPT !.tail = l.nodes[old_tail].prev,
                                   !.nodes[l.nodes[old_tail].prev].next = 0,
                                   !.nodes[old_tail] = FreeDNode,
                                   !.size = @ - 1],
                    value)

\* The while loop of remove.
RECURSIVE DLinkedList_remove_loop(_, _, _)
DLinkedList_remove_loop(l, curr_node, value) ==
    IF curr_node = 0 THEN Return(l, FALSE)
    ELSE IF l.nodes[curr_node].value = value
         THEN LET before == l.nodes[curr_node].prev
                  behind == l.nodes[curr_node].next
              IN  IF before = 0 \/ (curr_node # l.tail /\ behind = 0) THEN Fault(l)
                  ELSE Return(IF curr_node = l.tail
                              THEN [l EXCEPT !.tail = before,
                                             !.nodes[before].next = 0,
                                             !.nodes[curr_node] = FreeDNode,
                                             !.size = @ - 1]
                              ELSE [l EXCEPT !.nodes[before].next = behind,
                                             !.nodes[behind].prev = before,
                                             !.nodes[curr_node] = FreeDNode,
                                             !.size = @ - 1],
                              TRUE)
    ELSE DLinkedList_remove_loop(l, l.nodes[curr_node].next, value)

DLinkedList_remove(l, value) ==
    IF DLinkedList_empty(l) THEN Throw(l, "runtime_error")
    ELSE LET curr_node == l.head
         IN  IF l.nodes[curr_node].value = value
             THEN Return(IF l.head = l.tail
                         THEN [l EXCEPT !.nodes[curr_node] = FreeDNode,
                                        !.head = 0, !.tail = 0,
                                        !.size = @ - 1]
                         ELSE [l EXCEPT !.head = l.nodes[curr_node].next,
                                        !.nodes[l.nodes[curr_node].next].prev = 0,
                                        !.nodes[curr_node] = FreeDNode,
                                        !.size = @ - 1],
                         TRUE)
             ELSE DLinkedList_remove_loop(l, curr_node, value)

\* The while loop of find.
RECURSIVE DLinkedList_find_loop(_, _, _)
DLinkedList_find_loop(l, iter, value) ==
    IF iter = 0 THEN Return(l, 0)
    ELSE IF l.nodes[iter].value = value THEN Return(l, iter)
    ELSE DLinkedList_find_loop(l, l.nodes[iter].next, value)

DLinkedList_find(l, value) == DLinkedList_find_loop(l, l.head, value)

DLinkedList_swap_values(l, n1, n2) ==
    [l EXCEPT !.nodes[n1].value = l.nodes[n2].value,
              !.nodes[n2].value = l.nodes[n1].value]

\* The while loop of reverse.
RECURSIVE DLinkedList_reverse_loop(_, _, _, _)
DLinkedList_reverse_loop(l, start, end, half_size) ==
    IF half_size = 0 THEN Ok(l)
    ELSE IF start = 0 \/ end = 0 THEN Fault(l)
    ELSE DLinkedList_reverse_loop(DLinkedList_swap_values(l, start, end),
                                  l.nodes[start].next, l.nodes[end].prev,
                                  half_size - 1)

DLinkedList_reverse(l) ==
    IF DLinkedList_empty(l) THEN Throw(l, "runtime_error")
    ELSE IF l.size > 1
         THEN DLinkedList_reverse_loop(l, l.head, l.tail, l.size \div 2)
    ELSE Ok(l)

DLinkedList_update_at(l, index, new_value) ==
    LET found_node == DLinkedList_get_node_at(l, index)
    IN  IF found_node.res # "ok" THEN found_node
        ELSE IF found_node.ret = 0 THEN Return(l, 0)
        ELSE Return([l EXCEPT !.nodes[found_node.ret].value = new_value],
                    found_node.ret)

RECURSIVE DLinkedList_clear(_)
DLinkedList_clear(l) ==
    IF DLinkedList_empty(l) THEN Ok(l)
    ELSE DLinkedList_clear(DLinkedList_pop_front(l).st)

\* DLinkedList<T> list;
InitDLinkedList ==
    /\ dlist = EmptyDLinkedList
    /\ slist = EmptySinglyLinkedList
    /\ NoArray
    /\ NoInstances
    /\ NoAdapters
    /\ op = "DLinkedList"
    /\ args = <<>>
    /\ res = "ok"
    /\ ret = 0
    /\ pre = EmptyDLinkedList

\* One call of a member function of the list, made when the caller is done
\* with the call before, ending as out.
DListCall(name, arguments, out) ==
    /\ op = "idle"
    /\ pre' = dlist
    /\ op' = name
    /\ args' = arguments
    /\ res' = out.res
    /\ ret' = out.ret
    /\ dlist' = out.st
    /\ UNCHANGED <<slist, arrayVars, copyVars, adapterVars>>

\* The caller has seen how the call ended and goes on: the record of the
\* finished call is dropped.  A stopped process does not go on.
DListContinue ==
    /\ op # "idle"
    /\ res # "segv"
    /\ op' = "idle"
    /\ args' = <<>>
    /\ res' = "ok"
    /\ ret' = 0
    /\ pre' = dlist
    /\ UNCHANGED <<dlist, slist, pushed, _capacity, _size, _array, copyVars, adapterVars>>

\* There is room for one more node.
DListRoom == FreeAddresses(dlist) # {}

\* The indices callers try: every valid one and two beyond.
DListIndices == 0..(dlist.size + 1)

DListInsertFront ==
    \E value \in Val :
        /\ DListRoom
        /\ DListCall("insert_front", <<value>>, DLinkedList_insert_front(dlist, value))

DListPushBack ==
    \E value \in Val :
        /\ DListRoom
        /\ DListCall("push_back", <<value>>, DLinkedList_push_back(dlist, value))

\* list.insert_after(list.find(sought), value): the target is the node
\* find returns, nullptr when there is none.
DListInsertAfter ==
    \E sought \in Val, value \in Val :
        /\ DListRoom
        /\ DListCall("insert_after", <<sought, value>>,
                     DLinkedList_insert_after(
                         dlist, DLinkedList_find(dlist, sought).ret, value))

DListInsertAfterAt ==
    \E index \in DListIndices, value \in Val :
        /\ DListRoom
        /\ DListCall("insert_after_at", <<index, value>>,
                     DLinkedList_insert_after_at(dlist, index, value))

DListPopFront == DListCall("pop_front", <<>>, DLinkedList_pop_front(dlist))

DListRemoveLast == DListCall("remove_last", <<>>, DLinkedList_remove_last(dlist))

DListRemove ==
    \E value \in Val : DListCall("remove", <<value>>, DLinkedList_remove(dlist, value))

DListFind ==
    \E value \in Val : DListCall("find", <<value>>, DLinkedList_find(dlist, value))

DListGetNodeAt ==
    \E index \in DListIndices :
        DListCall("get_node_at", <<index>>, DLinkedList_get_node_at(dlist, index))

DListReverse == DListCall("reverse", <<>>, DLinkedList_reverse(dlist))

DListUpdateAt ==
    \E index \in DListIndices, new_value \in Val :
        DListCall("update_at", <<index, new_value>>,
                  DLinkedList_update_at(dlist, index, new_value))

DListGetFront == DListCall("get_front", <<>>, DLinkedList_get_front(dlist))

DListGetBack == DListCall("get_back", <<>>, DLinkedList_get_back(dlist))

DListClear == DListCall("clear", <<>>, DLinkedList_clear(dlist))

NextDLinkedList ==
    \/ DListInsertFront
    \/ DListPushBack
    \/ DListInsertAfter
    \/ DListInsertAfterAt
    \/ DListPopFront
    \/ DListRemoveLast
    \/ DListRemove
    \/ DListFind
    \/ DListGetNodeAt
    \/ DListReverse
    \/ DListUpdateAt
    \/ DListGetFront
    \/ DListGetBack
    \/ DListClear
    \/ DListContinue

SpecDLinkedList == InitDLinkedList /\ [][NextDLinkedList]_vars

\* ------------------------------------------- DS::Stack<T> on a DLinkedList
\* The Stack has one field, the DLinkedList stack; l is that list.
DS_Stack_empty(l) == DLinkedList_empty(l)

\* pop with pop_front in the place of remove_last.
DS_Stack_pop_from_front(l) ==
    IF DS_Stack_empty(l) THEN Throw(l, "runtime_error")
    ELSE DLinkedList_pop_front(l)

\* return stack.push_back(value)->get_value();
DS_Stack_push(l, value) ==
    LET added == DLinkedList_push_back(l, value)
    IN  Return(added.st, added.st.nodes[added.ret].value)

DS_Stack_pop(l) ==
    IF DS_Stack_empty(l) THEN Throw(l, "runtime_error")
    ELSE DLinkedList_remove_last(l)

DS_Stack_size(l) == l.size

DS_Stack_top(l) ==
    IF DS_Stack_empty(l) THEN Throw(l, "runtime_error")
    ELSE DLinkedList_get_back(l)

DS_Stack_bottom(l) ==
    IF DS_Stack_empty(l) THEN Throw(l, "runtime_error")
    ELSE DLinkedList_get_front(l)

DS_Stack_clear(l) == DLinkedList_clear(l)

\* Stack<T> s;
InitListStack ==
    /\ dlist = EmptyDLinkedList
    /\ slist = EmptySinglyLinkedList
    /\ NoArray
    /\ NoInstances
    /\ NoAdapters
    /\ op = "Stack"
    /\ args = <<>>
    /\ res = "ok"
    /\ ret = 0
    /\ pre = [stack |-> EmptyDLinkedList, pushed |-> <<>>]

\* One call of a member function of the Stack, ending as out, after which
\* the values pushed and not yet popped are log.
ListStackCall(name, arguments, out, log) ==
    /\ res # "segv"
    /\ pre' = [stack |-> dlist, pushed |-> pushed]
    /\ op' = name
    /\ args' = arguments
    /\ res' = out.res
    /\ ret' = out.ret
    /\ dlist' = out.st
    /\ pushed' = log
    /\ UNCHANGED <<slist, _capacity, _size, _array, copyVars, adapterVars>>

ListStackPush ==
    \E value \in Val :
        /\ DListRoom
        /\ ListStackCall("push", <<value>>, DS_Stack_push(dlist, value),
                         Append(pushed, value))

\* A pop that returns takes the last value pushed out of the log.
ListStackPop ==
    LET out == DS_Stack_pop(dlist)
    IN  ListStackCall("pop", <<>>, out,
                      IF out.res = "ok" /\ pushed # <<>>
                      THEN SubSeq(pushed, 1, Len(pushed) - 1) ELSE pushed)

ListStackTop == ListStackCall("top", <<>>, DS_Stack_top(dlist), pushed)

ListStackBottom == ListStackCall("bottom", <<>>, DS_Stack_bottom(dlist), pushed)

ListStackSize ==
    ListStackCall("size", <<>>, Return(dlist, DS_Stack_size(dlist)), pushed)

ListStackEmpty ==
    ListStackCall("empty", <<>>, Return(dlist, DS_Stack_empty(dlist)), pushed)

ListStackClear == ListStackCall("clear", <<>>, DS_Stack_clear(dlist), <<>>)

NextListStack ==
    \/ ListStackPush
    \/ ListStackPop
    \/ ListStackTop
    \/ ListStackBottom
    \/ ListStackSize
    \/ ListStackEmpty
    \/ ListStackClear

SpecListStack == InitListStack /\ [][NextListStack]_vars

\* ------------------------------------------------- ds::Stack on a buffer
\* The object is the record of its fields stack, capacity and top_index;
\* C++ index i of the buffer is position i + 1 of the sequence stack.

\* A read outside the buffer (stack[-1]) is undefined behaviour: the process
\* faults, or the read yields whatever lies there.
Trap == 0 - 1
WildReads == {Trap} \cup {Uninit} \cup Val

\* explicit Stack(const int capacity)
ds_Stack(capacity) ==
    [stack |-> [i \in 1..capacity |-> Uninit],
     capacity |-> capacity, top_index |-> 0 - 1]

\* bool is_full() const
ds_Stack_is_full(s) == s.top_index = s.capacity - 1

\* bool is_empty() const
ds_Stack_is_empty(s) == s.top_index < 0

\* stack[index] read: inside the buffer the slot, outside it wild.
ds_Stack_read(s, index, wild) ==
    IF 0 <= index /\ index < s.capacity THEN Return(s, s.stack[index + 1])
    ELSE IF wild = Trap THEN Fault(s)
    ELSE Return(s, wild)

\* void push(const T element)
ds_Stack_push(s, element) ==
    IF ds_Stack_is_full(s) THEN Throw(s, "out_of_range")
    ELSE Ok([s EXCEPT !.top_index = @ + 1,
                      !.stack[s.top_index + 2] = element])

\* T pop(): return stack[--top_index];
ds_Stack_pop(s, wild) ==
    IF ds_Stack_is_empty(s) THEN Throw(s, "out_of_range")
    ELSE LET t == [s EXCEPT !.top_index = @ - 1]
         IN  ds_Stack_read(t, t.top_index, wild)

\* int get_size() const
ds_Stack_get_size(s) == s.top_index + 1

\* T get_top() const
ds_Stack_get_top(s, wild) == ds_Stack_read(s, s.top_index, wild)

\* T get_bottom() const
ds_Stack_get_bottom(s, wild) ==
    IF ds_Stack_is_empty(s) THEN Throw(s, "out_of_range")
    ELSE ds_Stack_read(s, 0, wild)

\* ds::Stack<int> s(capacity);
InitStack ==
    /\ \E capacity \in 0..MaxStackCap :
           /\ stack = ds_Stack(capacity)
           /\ args = <<capacity>>
    /\ queue = NoQueue
    /\ NoArray
    /\ NoInstances
    /\ NoLists
    /\ op = "Stack"
    /\ res = "ok"
    /\ ret = 0
    /\ pre = [stack |-> stack, pushed |-> <<>>]

\* One call of a member function of the stack, ending as out, after which
\* the values pushed and not yet popped are log.
StackCall(name, arguments, out, log) ==
    /\ res # "segv"
    /\ pre' = [stack |-> stack, pushed |-> pushed]
    /\ op' = name
    /\ args' = arguments
    /\ res' = out.res
    /\ ret' = out.ret
    /\ stack' = out.st
    /\ pushed' = log
    /\ UNCHANGED <<queue, _capacity, _size, _array, copyVars, listVars>>

StackPush ==
    \E element \in Val :
        LET out == ds_Stack_push(stack, element)
        IN  StackCall("push", <<element>>, out,
                      IF out.res = "ok" THEN Append(pushed, element) ELSE pushed)

\* A pop that returns takes the last value pushed out of the log.
StackPop ==
    \E wild \in WildReads :
        LET out == ds_Stack_pop(stack, wild)
        IN  StackCall("pop", <<>>, out,
                      IF out.res = "ok" /\ pushed # <<>>
                      THEN SubSeq(pushed, 1, Len(pushed) - 1) ELSE pushed)

StackGetTop ==
    \E wild \in WildReads :
        StackCall("get_top", <<>>, ds_Stack_get_top(stack, wild), pushed)

StackGetBottom ==
    \E wild \in WildReads :
        StackCall("get_bottom", <<>>, ds_Stack_get_bottom(stack, wild), pushed)

StackGetSize ==
    StackCall("get_size", <<>>, Return(stack, ds_Stack_get_size(stack)), pushed)

NextStack ==
    \/ StackPush
    \/ StackPop
    \/ StackGetTop
    \/ StackGetBottom
    \/ StackGetSize

SpecStack == InitStack /\ [][NextStack]_vars

\* ------------------------------------------------- ds::Queue on a buffer
\* The object is the record of its fields queue, capacity, front, rear and
\* size; C++ index i of the buffer is position i + 1 of the sequence queue.

\* explicit Queue(int capacity)
ds_Queue(capacity) ==
    [queue |-> [i \in 1..capacity |-> Uninit],
     capacity |-> capacity, front |-> 0, rear |-> 0 - 1, size |-> 0]

\* int get_size() const
ds_Queue_get_size(q) == q.rear + 1

\* bool is_empty() const
ds_Queue_is_empty(q) == q.size = 0

\* bool is_full() const
ds_Queue_is_full(q) == q.size = q.capacity

\* void enqueue(const T element)
ds_Queue_enqueue(q, element) ==
    IF ds_Queue_is_full(q) THEN Throw(q, "out_of_range")
    ELSE LET rear == (q.rear + 1) % q.capacity
         IN  Ok([q EXCEPT !.rear = rear,
                          !.queue[rear + 1] = element,
                          !.size = @ + 1])

\* dequeue that takes the element at rear, the newest.
ds_Queue_dequeue_at_rear(q) ==
    IF ds_Queue_is_empty(q) THEN Throw(q, "out_of_range")
    ELSE Return([q EXCEPT !.front = (q.front + 1) % q.capacity,
                          !.size = @ - 1],
                q.queue[q.rear + 1])

\* T dequeue()
ds_Queue_dequeue(q) ==
    IF ds_Queue_is_empty(q) THEN Throw(q, "out_of_range")
    ELSE Return([q EXCEPT !.front = (q.front + 1) % q.capacity,
                          !.size = @ - 1],
                q.queue[q.front + 1])

\* ds::Queue<int> q(capacity);
InitQueue ==
    /\ \E capacity \in 0..MaxQueueCap :
           /\ queue = ds_Queue(capacity)
           /\ args = <<capacity>>
    /\ stack = NoStack
    /\ NoArray
    /\ NoInstances
    /\ NoLists
    /\ op = "Queue"
    /\ res = "ok"
    /\ ret = 0
    /\ pre = [queue |-> queue, pushed |-> <<>>]

\* One call of a member function of the queue, ending as out, after which
\* the values enqueued and not yet dequeued are log, oldest first.
QueueCall(name, arguments, out, log) ==
    /\ pre' = [queue |-> queue, pushed |-> pushed]
    /\ op' = name
    /\ args' = arguments
    /\ res' = out.res
    /\ ret' = out.ret
    /\ queue' = out.st
    /\ pushed' = log
    /\ UNCHANGED <<stack, _capacity, _size, _array, copyVars, listVars>>

QueueEnqueue ==
    \E element \in Val :
        LET out == ds_Queue_enqueue(queue, element)
        IN  QueueCall("enqueue", <<element>>, out,
                      IF out.res = "ok" THEN Append(pushed, element) ELSE pushed)

\* A dequeue that returns takes the oldest value out of the log.
QueueDequeue ==
    LET out == ds_Queue_dequeue(queue)
    IN  QueueCall("dequeue", <<>>, out,
                  IF out.res = "ok" /\ pushed # <<>> THEN Tail(pushed) ELSE pushed)

QueueGetSize ==
    QueueCall("get_size", <<>>, Return(queue, ds_Queue_get_size(queue)), pushed)

NextQueue ==
    \/ QueueEnqueue
    \/ QueueDequeue
    \/ QueueGetSize

SpecQueue == InitQueue /\ [][NextQueue]_vars

\* --------------------------------------------------------------- the claims
\* The logical content of the array: the slots [0, _size), as show() prints
\* them.
Elements(a) ==
    [i \in 1..a._size |-> IF i <= Len(a._array) THEN a._array[i] ELSE 0 - 1]

\* The errors a member function reports to its caller.
Errors == {"IndexOutOfRange", "InvalidArgument", "Underflow", "CapacityExceeded"}

\* C1: in every state reachable from construction by the public operations,
\* 0 <= size() <= capacity().
C1_SizeWithinCapacity == 0 <= _size /\ _size <= _capacity

\* C1's case: a resize below the element count has cut the array to exactly
\* its new capacity.
C1_Witness ==
    /\ op = "resize"
    /\ res = "ok"
    /\ pre._size > _capacity
    /\ _size = _capacity

\* C2: push(v) always succeeds and appends v: size grows by one, the old
\* elements stay, and capacity doubles exactly when the array was full.
C2_PushAppends ==
    op = "push" =>
        /\ res = "ok"
        /\ _size = pre._size + 1
        /\ Elements(This) = Append(Elements(pre), args[1])
        /\ _capacity = IF pre._size = pre._capacity
                       THEN 2 * pre._capacity ELSE pre._capacity

\* C3: pop() on a non-empty array removes exactly the last element, and
\* then halves capacity iff the new size is below a quarter of it.
C3_PopRemovesLast ==
    (op = "pop" /\ pre._size > 0) =>
        /\ res = "ok"
        /\ _size = pre._size - 1
        /\ Elements(This) = SubSeq(Elements(pre), 1, pre._size - 1)
        /\ _capacity = IF pre._size - 1 < pre._capacity \div 4
                       THEN pre._capacity \div 2 ELSE pre._capacity

\* C3's case: a pop that halved the capacity and carried a live element
\* over into the smaller storage.
C3_Witness ==
    /\ op = "pop"
    /\ res = "ok"
    /\ _size >= 1
    /\ _capacity < pre._capacity

\* C4: insert_at(index, v) succeeds for every 0 <= index <= size and fails
\* with IndexOutOfRange exactly when index < 0 or index > size.
C4_InsertAtRange ==
    op = "insert_at" =>
        /\ (0 <= args[1] /\ args[1] <= pre._size) => res = "ok"
        /\ (res = "IndexOutOfRange") <=> (args[1] < 0 \/ args[1] > pre._size)

\* C5: a successful insert_at(index, v) on s gives s[0..index), v,
\* s[index..old size): size grows by one and the old order is kept.
C5_InsertAtShifts ==
    (op = "insert_at" /\ res = "ok") =>
        /\ _size = pre._size + 1
        /\ Elements(This) = SubSeq(Elements(pre), 1, args[1])
                            \o <<args[2]>>
                            \o SubSeq(Elements(pre), args[1] + 1, pre._size)

\* C5's case: a value inserted between two stored elements that differ,
\* with elements on both sides of it.
C5_Witness ==
    /\ op = "insert_at"
    /\ res = "ok"
    /\ args[1] = 1
    /\ pre._size = 3
    /\ pre._array[1] # pre._array[2]
    /\ pre._array[2] # pre._array[3]

\* C6: a successful remove_at(index, length) with length >= 1 on s gives
\* s[0..index) followed by s[index+length..old size): size drops by length
\* and the order of the rest is kept.
C6_RemoveAtCloses ==
    (op = "remove_at" /\ res = "ok" /\ args[2] >= 1) =>
        /\ _size = pre._size - args[2]
        /\ Elements(This) = SubSeq(Elements(pre), 1, args[1])
                            \o SubSeq(Elements(pre), args[1] + args[2] + 1, pre._size)

\* C6's case: a run of two elements removed from the middle, elements left
\* on both sides.
C6_Witness ==
    /\ op = "remove_at"
    /\ res = "ok"
    /\ args[2] = 2
    /\ args[1] >= 1
    /\ _size > args[1]

\* C7: mutable operator[](index) succeeds for every 0 <= index < size and
\* changes neither size nor capacity, also on a full buffer;
\* CapacityExceeded is raised only for index == size on a full buffer.
C7_InPlaceAccessOnFullBuffer ==
    op \in {"operator[]", "operator[]="} =>
        /\ (0 <= args[1] /\ args[1] < pre._size) =>
               (res = "ok" /\ _size = pre._size /\ _capacity = pre._capacity)
        /\ res = "CapacityExceeded" =>
               (args[1] = pre._size /\ pre._size = pre._capacity)

\* C8: after clear() returns, capacity() == 0, size() == 0 and the storage
\* is released.
C8_ClearResetsCapacity ==
    op = "clear" => (_capacity = 0 /\ _size = 0 /\ _array = <<>>)

\* C9: push(v) on a cleared array re-establishes storage: capacity 1,
\* size 1 and at(0) == v.
C9_PushAfterClear ==
    (op = "push" /\ pre._array = <<>>) =>
        /\ res = "ok"
        /\ _capacity = 1
        /\ _size = 1
        /\ Len(_array) = 1
        /\ _array[1] = args[1]

\* C10: an operation that fails leaves size, capacity and the elements as
\* they were before the call.
C10_FailureLeavesState == res \in Errors => This = pre

\* C10's case: the boundary write on a full buffer, refused at the point
\* where the count would have been raised.
C10_Witness ==
    /\ op = "operator[]="
    /\ res = "CapacityExceeded"
    /\ args[1] = pre._size
    /\ pre._size >= 1

\* The calls pop(), push(value), pop(), ... made in turn on a, n of them,
\* as long as they return: none of them changes the capacity.
RECURSIVE AlternationKeepsCapacity(_, _, _, _)
AlternationKeepsCapacity(a, value, n, popNext) ==
    IF n = 0 THEN TRUE
    ELSE LET out == IF popNext THEN pop(a) ELSE push(a, value)
         IN  /\ out.st._capacity = a._capacity
             /\ out.res = "ok" =>
                    AlternationKeepsCapacity(out.st, value, n - 1, ~popNext)

\* C11 as stated: from any reachable state, in push, pop, push, pop, ... no
\* pop and no push after the first push changes capacity.
C11_AlternationFromAnyState ==
    (op = "push" /\ res = "ok") =>
        \A value \in Val :
            AlternationKeepsCapacity(This, value, MaxAlternations, TRUE)

\* C11, amended: from any reachable state whose size is not below a quarter
\* of its capacity (size >= capacity / 4, integer division), in push, pop,
\* push, pop, ... no pop and no push after the first push changes capacity.
C11_AlternationAtStableBoundary ==
    (op = "push" /\ res = "ok" /\ pre._size >= pre._capacity \div 4) =>
        \A value \in Val :
            AlternationKeepsCapacity(This, value, MaxAlternations, TRUE)

\* C11's case: the first push found the array full and doubled it, so the
\* pops that follow work right at the boundary.
C11_Witness ==
    /\ op = "push"
    /\ res = "ok"
    /\ pre._size = pre._capacity
    /\ _capacity = 2 * pre._capacity
    /\ pre._size >= 2

\* C12: at(index) and the const operator[](index) return the element stored
\* at index exactly when 0 <= index < size and fail with IndexOutOfRange
\* for every other index, also for size <= index < capacity.
C12_ReadRange ==
    op \in {"at", "operator[] const"} =>
        IF 0 <= args[1] /\ args[1] < pre._size
        THEN /\ res = "ok"
             /\ pre._array[args[1] + 1] # Uninit => ret = pre._array[args[1] + 1]
             /\ This = pre
        ELSE res = "IndexOutOfRange"

\* C12's case: a read of an allocated slot that holds no element.
C12_Witness ==
    /\ op = "at"
    /\ res = "IndexOutOfRange"
    /\ args[1] >= pre._size
    /\ args[1] < pre._capacity
    /\ pre._size >= 1

\* C13: remove_at(index, length) decides in this order: index outside
\* [0, size) is IndexOutOfRange whatever the length; else length < 0 is
\* InvalidArgument; else length == 0 changes nothing; else a run that ends
\* at or beyond size is IndexOutOfRange.
C13_RemoveAtChecksInOrder ==
    op = "remove_at" =>
        IF ~(0 <= args[1] /\ args[1] < pre._size) THEN res = "IndexOutOfRange"
        ELSE IF args[2] < 0 THEN res = "InvalidArgument"
        ELSE IF args[2] = 0 THEN res = "ok" /\ This = pre
        ELSE IF args[1] + args[2] - 1 >= pre._size THEN res = "IndexOutOfRange"
        ELSE res = "ok"

\* C13's case: a bad index together with a negative length on an array
\* that holds elements; the index decides.
C13_Witness ==
    /\ op = "remove_at"
    /\ res = "IndexOutOfRange"
    /\ args[1] >= pre._size
    /\ args[2] < 0
    /\ pre._size >= 1

\* C14: resize(n) fails with InvalidArgument for n < 1, changes nothing for
\* n == capacity, and otherwise sets capacity to n and size to
\* min(n, old size), keeping the elements [0, min(n, old size)).
C14_ResizeCopiesUpToLimit ==
    op = "resize" =>
        IF args[1] < 1 THEN res = "InvalidArgument"
        ELSE IF args[1] = pre._capacity THEN res = "ok" /\ This = pre
        ELSE /\ res = "ok"
             /\ _capacity = args[1]
             /\ _size = Min(args[1], pre._size)
             /\ Elements(This) = SubSeq(Elements(pre), 1, Min(args[1], pre._size))

\* C14's case: a resize below the element count that drops elements and
\* keeps at least two.
C14_Witness ==
    /\ op = "resize"
    /\ res = "ok"
    /\ args[1] >= 2
    /\ args[1] < pre._size
    /\ _size = args[1]

\* C15: mutable operator[](index) with index == size on a buffer that is
\* not full raises size by exactly one and leaves capacity and the elements
\* [0, old size) as they were.
C15_BoundaryWriteCounts ==
    (op \in {"operator[]", "operator[]="} /\ args[1] = pre._size
                                         /\ pre._size # pre._capacity) =>
        /\ res = "ok"
        /\ _size = pre._size + 1
        /\ _capacity = pre._capacity
        /\ SubSeq(Elements(This), 1, pre._size) = Elements(pre)

\* C16: a remove_at that copies (length >= 1) leaves capacity at old
\* capacity / 2 if the new size is below old capacity / 4 and at the old
\* capacity otherwise.
C16_RemoveAtShrinksOnce ==
    (op = "remove_at" /\ res = "ok" /\ args[2] >= 1) =>
        _capacity = IF _size < pre._capacity \div 4
                    THEN pre._capacity \div 2 ELSE pre._capacity

\* C16's case: a removal that leaves an element and brings the size under
\* a quarter of the capacity.
C16_Witness ==
    /\ op = "remove_at"
    /\ res = "ok"
    /\ args[2] >= 1
    /\ _size >= 1
    /\ _size < pre._capacity \div 4
    /\ _capacity = pre._capacity \div 2

\* C17: a successful insert_at on size s and capacity c ends with capacity
\* 2 * (c + 1) if s == c, 2 * c if s + 1 == c and c otherwise, and never
\* with a full array.
C17_InsertAtCapacity ==
    (op = "insert_at" /\ res = "ok") =>
        /\ _capacity = IF pre._size = pre._capacity THEN 2 * (pre._capacity + 1)
                       ELSE IF pre._size + 1 = pre._capacity THEN 2 * pre._capacity
                       ELSE pre._capacity
        /\ _size # _capacity

\* C17's case: an insertion into a full array.
C17_Witness ==
    /\ op = "insert_at"
    /\ res = "ok"
    /\ pre._size = pre._capacity
    /\ _capacity = 2 * (pre._capacity + 1)
    /\ pre._size >= 2

\* The smallest power of two that is at least n, searched from p up.
RECURSIVE PowerOfTwoAtLeast(_, _)
PowerOfTwoAtLeast(n, p) == IF p >= n THEN p ELSE PowerOfTwoAtLeast(n, 2 * p)

\* C18: after n >= 1 pushes on Array(1) and nothing else, size == n,
\* capacity is the smallest power of two >= n, and at(i) returns the i-th
\* pushed value for every 0 <= i < n.
C18_PushesOnFreshArray ==
    Len(pushed) >= 1 =>
        /\ res = "ok"
        /\ _size = Len(pushed)
        /\ _capacity = PowerOfTwoAtLeast(Len(pushed), 1)
        /\ \A i \in 0..(Len(pushed) - 1) :
               at(This, i) = Return(This, pushed[i + 1])

\* C18's case: the spec's example, four pushes that fill capacity 4, with
\* values that differ.
C18_Witness ==
    /\ Len(pushed) = 4
    /\ _size = 4
    /\ _capacity = 4
    /\ pushed[1] # pushed[2]
    /\ pushed[3] # pushed[4]

C20_PushPopRoundTrip ==
    op = "push" =>
        /\ res = "ok"
        /\ _array[_size] = args[1]
        /\ LET back == pop(This)
           IN  /\ back.res = "ok"
               /\ back.st._size = pre._size
               /\ Elements(back.st) = Elements(pre)

\* C21: remove(value) deletes only the first occurrence of value (size drops
\* by one, later duplicates and the order of the rest are kept); when value
\* is absent it changes nothing and raises no error.  A slot counted but
\* never written may compare equal to value.
C21_RemoveFirstOccurrence ==
    op = "remove" =>
        LET s == Elements(pre)
            firsts == {i \in 1..Len(s) : /\ s[i] \in {args[1], Uninit}
                                         /\ \A j \in 1..(i - 1) : s[j] # args[1]}
        IN  /\ res = "ok"
            /\ \/ (\A i \in 1..Len(s) : s[i] # args[1]) /\ This = pre
               \/ \E i \in firsts :
                      /\ _size = pre._size - 1
                      /\ Elements(This) = SubSeq(s, 1, i - 1) \o SubSeq(s, i + 1, Len(s))

\* C21's case: the value stands at the second and the fourth place, with
\* other values before and between; the second place is removed.
C21_Witness ==
    /\ op = "remove"
    /\ pre._size = 4
    /\ pre._array[1] \notin {args[1], Uninit}
    /\ pre._array[2] = args[1]
    /\ pre._array[3] \notin {args[1], Uninit}
    /\ pre._array[4] = args[1]
    /\ Elements(This) = <<pre._array[1], pre._array[3], args[1]>>

\* C22: find(value) returns the smallest index i in [0, size) whose element
\* equals value and -1 when there is none (slots in [size, capacity) never
\* match), and changes no state.  A slot counted but never written may
\* compare equal to value.
C22_FindFirstOccurrence ==
    op = "find" =>
        LET s == Elements(pre)
        IN  /\ res = "ok"
            /\ This = pre
            /\ IF ret = 0 - 1
               THEN \A i \in 1..Len(s) : s[i] # args[1]
               ELSE /\ ret + 1 \in 1..Len(s)
                    /\ s[ret + 1] \in {args[1], Uninit}
                    /\ \A j \in 1..ret : s[j] # args[1]

\* C22's case: the value is not among the elements, but the slot right
\* behind them still holds it.
C22_Witness ==
    /\ op = "find"
    /\ ret = 0 - 1
    /\ pre._size >= 1
    /\ pre._size < Len(pre._array)
    /\ pre._array[pre._size + 1] = args[1]

\* C23: reverse() replaces the sequence by its exact reverse for odd and
\* even sizes, leaves size and capacity as they were, does nothing on an
\* empty array, and applied twice restores the original sequence.
C23_ReverseIsInvolution ==
    op = "reverse" =>
        LET s == Elements(pre)
            again == reverse(This)
        IN  /\ res = "ok"
            /\ _size = pre._size
            /\ _capacity = pre._capacity
            /\ \A i \in 1..pre._size : Elements(This)[i] = s[pre._size + 1 - i]
            /\ pre._size = 0 => This = pre
            /\ again.res = "ok"
            /\ Elements(again.st) = s

\* C23's case: an array of even size whose two halves differ, reversed.
C23_Witness ==
    /\ op = "reverse"
    /\ res = "ok"
    /\ pre._size = 4
    /\ pre._array[1] # pre._array[4]
    /\ pre._array[2] # pre._array[3]
    /\ Uninit \notin {pre._array[i] : i \in 1..4}

\* C24: constructing an Array with capacity c succeeds exactly when c >= 1,
\* giving size 0 and capacity c (capacity 1 without an argument); c < 1
\* fails with InvalidArgument.
C24_ConstructorChecksCapacity ==
    op = "Array" =>
        LET c == IF args = <<>> THEN 1 ELSE args[1]
        IN  IF c >= 1
            THEN /\ res = "ok"
                 /\ _size = 0
                 /\ _capacity = c
                 /\ Len(_array) = c
            ELSE res = "InvalidArgument"

\* C24's case: Array a(0), the largest capacity that is refused.
C24_Witness ==
    /\ op = "Array"
    /\ args = <<0>>
    /\ res = "InvalidArgument"

\* C25: pop() on an empty array fails with Underflow and leaves size and
\* capacity as they were; size is never below 0.
C25_PopOnEmptyUnderflows ==
    /\ _size >= 0
    /\ (op = "pop" /\ pre._size = 0) =>
           (res = "Underflow" /\ _size = 0 /\ _capacity = pre._capacity)

\* C25's case: a pop on an array that held an element and was emptied.
C25_Witness ==
    /\ op = "pop"
    /\ res = "Underflow"
    /\ pre._size = 0
    /\ pre._array # <<>>
    /\ pre._array[1] # Uninit

\* The calls that end with the automatic shrink.
Shrinking == {"pop", "remove_at", "pop_back", "pop_front", "remove"}

\* C26: capacity() >= 1 in every state of a constructed array other than
\* right after clear(); the automatic shrink never asks resize for an
\* invalid capacity and never cuts an element off.
C26_CapacityStaysPositive ==
    /\ (Constructed /\ op # "clear") => _capacity >= 1
    /\ (op \in Shrinking /\ res = "InvalidArgument") =>
           (op = "remove_at" /\ args[2] < 0)
    /\ (op \in Shrinking /\ res = "ok" /\ _capacity # pre._capacity) =>
           /\ _capacity >= 1
           /\ _size <= _capacity
           /\ _size = pre._size - (IF op = "remove_at" THEN args[2] ELSE 1)

\* C26's case: pop_front halves the capacity and an element stays.
C26_Witness ==
    /\ op = "pop_front"
    /\ res = "ok"
    /\ _capacity = pre._capacity \div 2
    /\ _capacity < pre._capacity
    /\ _size >= 1

\* C27: pop_back() ends exactly as remove_at(size - 1, 1) and pop_front()
\* exactly as remove_at(0, 1): same fields and same result, IndexOutOfRange
\* on an empty array.
C27_PopBackFrontAsRemoveAt ==
    /\ op = "pop_back" =>
           /\ [st |-> This, res |-> res, ret |-> ret] = remove_at(pre, pre._size - 1, 1)
           /\ pre._size = 0 => res = "IndexOutOfRange"
    /\ op = "pop_front" =>
           /\ [st |-> This, res |-> res, ret |-> ret] = remove_at(pre, 0, 1)
           /\ pre._size = 0 => res = "IndexOutOfRange"

\* C27's case: pop_back takes the last of two elements and the shrink
\* check halves the capacity.
C27_Witness ==
    /\ op = "pop_back"
    /\ res = "ok"
    /\ pre._size = 2
    /\ _capacity < pre._capacity
    /\ _array[1] = pre._array[1]
    /\ pre._array[1] # pre._array[2]

\* C28: storage is never shared between two Array objects: no statement,
\* copying an Array included, leaves two objects pointing to the same
\* allocation, and no allocation is released twice.
C28_StorageNeverShared ==
    /\ \A m, n \in Names :
           (m # n /\ instances[m].alive /\ instances[n].alive
                  /\ instances[m]._array # 0) =>
               instances[m]._array # instances[n]._array
    /\ \A p \in DOMAIN allocations : allocations[p] # "released twice"

\* The last node on the way from node p along the next pointers.
RECURSIVE LastNode(_, _)
LastNode(nodes, p) ==
    IF nodes[p].next = 0 THEN p ELSE LastNode(nodes, nodes[p].next)

\* C29: after any sequence of insert_front, insert_back, insert_after,
\* remove_front, remove and clear on a SinglyLinkedList, whenever the list
\* is not empty tail points to the last node reachable from head, and
\* get_back() returns the value stored in that node.
C29_TailIsLastNode ==
    slist.head # 0 =>
        /\ slist.tail = LastNode(slist.nodes, slist.head)
        /\ \A out \in SinglyLinkedList_get_back(slist) :
               /\ out.res = "ok"
               /\ out.ret = slist.nodes[LastNode(slist.nodes, slist.head)].value

\* The values of the nodes on the way from node p along the next pointers,
\* as show() prints them.
RECURSIVE Values(_, _)
Values(nodes, p) ==
    IF p = 0 THEN <<>> ELSE <<nodes[p].value>> \o Values(nodes, nodes[p].next)

\* C30: DLinkedList::insert_after_at(index, value) with index >= size (any
\* index on an empty list) does nothing: no error, the list as it was;
\* with a valid index it puts value right behind the node at that index.
C30_InsertAfterAtIgnoresBadIndex ==
    op = "insert_after_at" =>
        LET s == Values(pre.nodes, pre.head)
        IN  IF args[1] >= pre.size
            THEN res = "ok" /\ dlist = pre
            ELSE /\ res = "ok"
                 /\ Values(dlist.nodes, dlist.head) =
                        SubSeq(s, 1, args[1] + 1) \o <<args[2]>>
                        \o SubSeq(s, args[1] + 2, Len(s))

\* C31: for the list-backed Stack, pop() removes and returns the value
\* pushed last and not yet popped, over any interleaving of push and pop;
\* top() returns that value and removes nothing; pop() and top() on an
\* empty stack fail with runtime_error and leave it as it was.
C31_ListStackIsLifo ==
    /\ DS_Stack_size(dlist) = Len(pushed)
    /\ op \in {"pop", "top"} =>
           IF pre.pushed = <<>>
           THEN res = "runtime_error" /\ dlist = pre.stack
           ELSE /\ res = "ok"
                /\ ret = pre.pushed[Len(pre.pushed)]
                /\ op = "top" => dlist = pre.stack
                /\ op = "pop" => DS_Stack_size(dlist) = DS_Stack_size(pre.stack) - 1

\* C31's case: a pop that returns the later of two values pushed, while
\* the older, different value stays underneath.
C31_Witness ==
    /\ op = "pop"
    /\ res = "ok"
    /\ Len(pre.pushed) = 2
    /\ ret = pre.pushed[2]
    /\ ret # pre.pushed[1]
    /\ pushed = <<pre.pushed[1]>>

\* The node at position k, counted from 0, on the way from node p along the
\* next pointers; 0 when the way ends before.
RECURSIVE NodeAt(_, _, _)
NodeAt(nodes, p, k) ==
    IF p = 0 \/ k = 0 THEN p ELSE NodeAt(nodes, nodes[p].next, k - 1)

C33_AccessWithinStorage ==
    Constructed => (res # "segv" /\ Len(_array) = _capacity)

\* C34: mutable operator[](index) fails with IndexOutOfRange exactly when
\* index < 0 or index > size, and the index is tested before the buffer
\* is: on a full buffer such an index is IndexOutOfRange, not
\* CapacityExceeded.
C34_IndexTestedBeforeFull ==
    op \in {"operator[]", "operator[]="} =>
        /\ (args[1] < 0 \/ args[1] > pre._size) =>
               (res = "IndexOutOfRange" /\ This = pre)
        /\ res = "IndexOutOfRange" => (args[1] < 0 \/ args[1] > pre._size)

\* C34's case: a write beyond the boundary of a full buffer that holds
\* elements.
C34_Witness ==
    /\ op = "operator[]="
    /\ res = "IndexOutOfRange"
    /\ pre._size = pre._capacity
    /\ pre._size >= 2
    /\ args[1] > pre._size

\* How the call other(pre) compares with the call that was made: on an
\* empty array the two errors given, else the same elements, size and
\* capacity.
SameOutcome(other, errorMade, errorOther) ==
    IF pre._size = 0
    THEN res = errorMade /\ other.res = errorOther
    ELSE /\ res = "ok"
         /\ other.res = "ok"
         /\ Elements(This) = Elements(other.st)
         /\ _size = other.st._size
         /\ _capacity = other.st._capacity

\* C35: on every non-empty Array pop() and pop_back() leave the same
\* elements, size and capacity; on an empty array pop() reports Underflow
\* and pop_back() reports IndexOutOfRange.
C35_PopAsPopBack ==
    /\ op = "pop" => SameOutcome(pop_back(pre), "Underflow", "IndexOutOfRange")
    /\ op = "pop_back" => SameOutcome(pop(pre), "IndexOutOfRange", "Underflow")

\* C35's case: a pop that halves the capacity and keeps an element, where
\* pop_back would have done the same through remove_at.
C35_Witness ==
    /\ op = "pop"
    /\ res = "ok"
    /\ _size >= 1
    /\ _capacity < pre._capacity
    /\ pop_back(pre).st._capacity = _capacity

\* C36: on the array-backed ds::Stack, pop() returns the most recently
\* pushed element not yet popped and reduces get_size() by 1 (so push(x)
\* then pop() returns x, also when x is the only element), and pop never
\* reads the buffer below index 0.
C36_StackPopReturnsTop ==
    op = "pop" =>
        IF pre.pushed = <<>>
        THEN res = "out_of_range" /\ stack = pre.stack
        ELSE /\ res = "ok"
             /\ ret = pre.pushed[Len(pre.pushed)]
             /\ ds_Stack_get_size(stack) = ds_Stack_get_size(pre.stack) - 1

\* C37: get_size() of ds::Queue is the number of elements enqueued and not
\* yet dequeued, after any sequence of operations.
C37_QueueSizeIsStoredCount ==
    /\ ds_Queue_get_size(queue) = Len(pushed)
    /\ op = "get_size" => ret = Len(pre.pushed)

\* C38: dequeue() returns the elements in the order they were enqueued,
\* also across wrap-around; enqueue fails exactly when the stored count is
\* the capacity and dequeue exactly when it is 0, a failed call changing
\* nothing; the stored count stays within [0, capacity].
C38_QueueIsFifo ==
    /\ queue.size = Len(pushed)
    /\ 0 <= queue.size /\ queue.size <= queue.capacity
    /\ op = "dequeue" =>
           IF pre.pushed = <<>>
           THEN res = "out_of_range" /\ queue = pre.queue
           ELSE res = "ok" /\ ret = Head(pre.pushed) /\ pushed = Tail(pre.pushed)
    /\ op = "enqueue" =>
           IF Len(pre.pushed) = pre.queue.capacity
           THEN res = "out_of_range" /\ queue = pre.queue
           ELSE res = "ok" /\ pushed = Append(pre.pushed, args[1])

\* C38's case: a dequeue from a queue whose rear has wrapped round behind
\* its front, returning the older of two different values.
C38_Witness ==
    /\ op = "dequeue"
    /\ res = "ok"
    /\ pre.queue.rear < pre.queue.front
    /\ Len(pre.pushed) >= 2
    /\ ret = pre.pushed[1]
    /\ ret # pre.pushed[Len(pre.pushed)]

\* The nodes on the way from node p along the next pointers, at most fuel
\* of them, as show() visits them.
RECURSIVE Forward(_, _, _)
Forward(nodes, p, fuel) ==
    IF p = 0 \/ fuel = 0 THEN <<>>
    ELSE <<p>> \o Forward(nodes, nodes[p].next, fuel - 1)

\* C39: after any sequence of insert_front, push_back, insert_after,
\* insert_after_at, pop_front, remove_last, remove, reverse, update_at and
\* clear on a DLinkedList, size is the number of nodes reachable from head;
\* head is null iff tail is null iff size is 0; head.prev and tail.next are
\* null; and every node n with a successor has n.next.prev = n.
C39_ListIsWellLinked ==
    LET way == Forward(dlist.nodes, dlist.head, MaxNodes + 1)
    IN  /\ dlist.size = Len(way)
        /\ (dlist.head = 0) = (dlist.tail = 0)
        /\ (dlist.head = 0) = (dlist.size = 0)
        /\ dlist.head # 0 =>
               /\ dlist.nodes[dlist.head].prev = 0
               /\ dlist.nodes[dlist.tail].next = 0
               /\ way[Len(way)] = dlist.tail
        /\ \A i \in 1..Len(way) :
               /\ dlist.nodes[way[i]].live
               /\ dlist.nodes[way[i]].next # 0 =>
                      dlist.nodes[dlist.nodes[way[i]].next].prev = way[i]

\* C39's case: an insert_after that put the fourth node of a list between
\* two others.
C39_Witness ==
    /\ op = "insert_after"
    /\ res = "ok"
    /\ pre.size = 3
    /\ dlist.size = 4
    /\ dlist.tail = pre.tail
    /\ \E p \in Addresses :
           /\ ~pre.nodes[p].live
           /\ dlist.nodes[p].live
           /\ dlist.nodes[p].prev # 0
           /\ dlist.nodes[p].next # 0
           /\ dlist.nodes[p].next < p

====
